---- MODULE Spec2Model ----
(***************************************************************************)
(* A model of dashboard.py: one Streamlit script run (the module's top     *)
(* level, then main()) over a spreadsheet-backed store of four worksheets, *)
(* a per-session session_state and the record of what the last run         *)
(* rendered.                                                               *)
(*                                                                         *)
(* Time is counted in hours.  A timestamp cell of a sheet is a record      *)
(* [day, hour]; pd.to_datetime turns it into hours, strftime turns hours   *)
(* back into [day, hour].                                                  *)
(*                                                                         *)
(* DataFrame.sort_values is called with its default kind ("quicksort"),    *)
(* which pandas documents as not stable: the order of rows with equal keys *)
(* is left to the build.  A sort therefore yields the SET of orders that   *)
(* respect the key, and a run yields a set of outcomes.                    *)
(***************************************************************************)
EXTENDS Integers, Sequences, FiniteSets, TLC

VARIABLES
    store,          \* the remote spreadsheet: [found, titles, records]
    session_state,  \* st.session_state: [keys, manual_refresh, filtered_df, selected_time_filter]
    run             \* what the last script run did (its locals, panels, log writes)

vars == <<store, session_state, run>>

----------------------------------------------------------------------------
(* Bounds of the model *)

MaxRows == 3        \* rows of the memory sheet (Spec)
MaxTopRows == 6     \* rows of the memory sheet (SpecTop)
MaxSeries == 3      \* rows of the counter sheet (SpecPct)
MaxCounter == 2     \* largest Counter cell (SpecPct)
MaxFaultRows == 1   \* rows of the memory sheet (SpecFault)
MaxFilterRows == 2  \* rows of the memory sheet (SpecFilter)

----------------------------------------------------------------------------
(* Program constants *)

HoursPerDay == 24
TopN == 5
NColumns == 5
CorrectionHours == 1
DaysInMonth == 30

sheet_name == "Data Monitor ENIS"

SheetNames == {"plc_data_1", "memory_data_1", "daily_data_1", "triggered_daily_count"}

time_options ==
    <<"All Data", "Last 1 Day", "Last 2 Days", "Last 7 Days", "Last 1 Month", "Custom Range">>

TimeOptionSet == {time_options[i] : i \in 1..Len(time_options)}

----------------------------------------------------------------------------
(* Generic helpers *)

Range(s) == {s[i] : i \in 1..Len(s)}

Min2(a, b) == IF a <= b THEN a ELSE b

SetMax(S) == CHOOSE x \in S : \A y \in S : y <= x

RECURSIVE SumSeq(_)
SumSeq(s) == IF s = <<>> THEN 0 ELSE Head(s) + SumSeq(Tail(s))

Abs(n) == IF n < 0 THEN -n ELSE n

RECURSIVE Gcd(_, _)
Gcd(a, b) == IF b = 0 THEN a ELSE Gcd(b, a % b)

(* pd.to_datetime of a sheet cell, and strftime('%d ... %H:%M') of a datetime *)
to_datetime(cell) == cell.day * HoursPerDay + cell.hour

strftime(t) == [day |-> t \div HoursPerDay, hour |-> t % HoursPerDay]

Timedelta_days(d) == d * HoursPerDay

(* head that keeps one row too many *)
head_inclusive(rows, n) == SubSeq(rows, 1, Min2(n + 1, Len(rows)))

(* SubSeq(s, 1, n) clipped: DataFrame.head(n) *)
head(rows, n) == SubSeq(rows, 1, Min2(n, Len(rows)))

(* All orders of the index set I of `rows` in which key is non-increasing     *)
(* (desc) or non-decreasing: what an unstable sort may return.                *)
RECURSIVE Orders(_, _, _)
Orders(rows, I, desc) ==
    IF I = {} THEN {<<>>}
    ELSE LET first == {i \in I : \A j \in I :
                          IF desc THEN rows[j].key <= rows[i].key
                                  ELSE rows[i].key <= rows[j].key}
         IN  UNION {{<<i>> \o t : t \in Orders(rows, I \ {i}, desc)} : i \in first}

(* The rows in the order o (a sequence of positions) *)
Reorder(rows, o) == [k \in 1..Len(rows) |-> rows[o[k]]]

(* df.sort_values('Most Recent Timestamp'): the possible row sequences *)
sort_by_timestamp(rows) ==
    LET keyed == [i \in 1..Len(rows) |-> [key |-> rows[i].Timestamp]]
    IN  {Reorder(rows, o) : o \in Orders(keyed, 1..Len(rows), FALSE)}

(* df.sort_values("Count", ascending=False): the possible row sequences *)
sort_by_count_desc(rows) ==
    LET keyed == [i \in 1..Len(rows) |-> [key |-> rows[i].Count]]
    IN  {Reorder(rows, o) : o \in Orders(keyed, 1..Len(rows), TRUE)}

----------------------------------------------------------------------------
(* The store and its access: auth_gspread, load_df *)

EmptyFrame == [columns |-> FALSE, rows |-> <<>>]

(* client.open / client.create, then get_or_create of the four worksheets.   *)
(* Returns the store as the calls leave it and the write calls issued.       *)
auth_gspread(s) ==
    LET missing == IF s.found THEN SheetNames \ s.titles ELSE SheetNames
    IN  [store |-> [found |-> TRUE,
                    titles |-> SheetNames,
                    records |-> [t \in SheetNames |->
                                    IF t \in missing THEN <<>> ELSE s.records[t]]],
         writes |-> (IF s.found THEN {} ELSE {[call |-> "create", title |-> sheet_name]})
                    \cup {[call |-> "add_worksheet", title |-> t] : t \in missing}]

(* load_df(memory_sheet, parse_dates="Most Recent Timestamp") *)
load_memory(data) ==
    IF data # <<>>
    THEN [columns |-> TRUE,
          rows |-> [i \in 1..Len(data) |->
                      [index |-> i - 1,
                       TrayID |-> data[i].TrayID,
                       Count |-> data[i].Count,
                       Timestamp |-> to_datetime(data[i].Timestamp),
                       Corrected |-> [present |-> FALSE, day |-> 0, hour |-> 0]]]]
    ELSE EmptyFrame

(* load_df(triggered_sheet, parse_dates="Date") *)
load_counter(data) ==
    IF data # <<>>
    THEN [columns |-> TRUE,
          rows |-> [i \in 1..Len(data) |->
                      [index |-> i - 1,
                       Date |-> to_datetime(data[i].Date),
                       Counter |-> data[i].Counter]]]
    ELSE EmptyFrame

(* load_df(plc_sheet), load_df(daily_sheet) *)
load_df(data) ==
    IF data # <<>>
    THEN [columns |-> TRUE,
          rows |-> [i \in 1..Len(data) |-> [index |-> i - 1, cell |-> data[i]]]]
    ELSE EmptyFrame

----------------------------------------------------------------------------
(* Percent change of the counter series                                     *)
(* A float is [kind, num, den]: a reduced fraction, or inf, -inf, nan.       *)

Finite(n, d) ==
    LET g == Gcd(Abs(n), Abs(d))
        sgn == IF d < 0 THEN -1 ELSE 1
    IN  [kind |-> "finite", num |-> sgn * (n \div g), den |-> sgn * (d \div g)]

NaN == [kind |-> "nan", num |-> 0, den |-> 1]

Inf == [kind |-> "inf", num |-> 0, den |-> 1]

NegInf == [kind |-> "-inf", num |-> 0, den |-> 1]

Zero == Finite(0, 1)

(* float division a / b of two integers *)
FDiv(a, b) ==
    IF b # 0 THEN Finite(a, b)
    ELSE IF a > 0 THEN Inf ELSE IF a < 0 THEN NegInf ELSE NaN

(* x - k and x * k for an integer k > 0 *)
FSubInt(x, k) == IF x.kind = "finite" THEN Finite(x.num - k * x.den, x.den) ELSE x

FMulInt(x, k) == IF x.kind = "finite" THEN Finite(x.num * k, x.den) ELSE x

fillna0(x) == IF x.kind = "nan" THEN Zero ELSE x

(* pd.to_numeric(cell, errors='coerce') then fillna(0) *)
to_numeric(cell) == IF cell.numeric THEN cell.val ELSE 0

(* pct_change as the plain ratio cur / prev *)
pct_ratio(counter, i) ==
    IF i = 1 THEN NaN ELSE FDiv(counter[i], counter[i - 1])

(* Series.pct_change(): NaN for the first row, cur / prev - 1 after it *)
pct_change(counter, i) ==
    IF i = 1 THEN NaN ELSE FSubInt(FDiv(counter[i], counter[i - 1]), 1)

(* lines 102-104 on the rows of a non-empty counter_df *)
with_pct_change(rows) ==
    LET counter == [i \in 1..Len(rows) |-> to_numeric(rows[i].Counter)]
    IN  [i \in 1..Len(rows) |->
            [index |-> rows[i].index,
             Date |-> rows[i].Date,
             Counter |-> counter[i],
             PctChange |-> FMulInt(fillna0(pct_change(counter, i)), 100)]]

----------------------------------------------------------------------------
(* One script run.  env is the run's state: the store, session_state, the  *)
(* locals of main(), the panels rendered so far and the pending exception.  *)
(* inp is what the run is given: button (the manual-refresh button returns  *)
(* True), submitted / start_date / end_date (the custom-range form), now    *)
(* (pd.Timestamp.now()), fault (the step whose library call raises, or ""). *)

NoTime == [na |-> TRUE, day |-> 0, hour |-> 0]

Unbound == [bound |-> FALSE, columns |-> FALSE, rows |-> <<>>]

Env0(st, ss, inp) ==
    [store |-> st, writes |-> {}, ss |-> ss, inp |-> inp,
     timer |-> FALSE, rerun |-> FALSE,
     panels |-> <<>>, raised |-> FALSE, failed_at |-> "",
     logged |-> 0, errors |-> 0, caught |-> FALSE,
     fetched |-> [t \in SheetNames |-> <<>>],
     plc_df |-> EmptyFrame, memory_df |-> EmptyFrame,
     daily_df |-> EmptyFrame, counter_df |-> EmptyFrame,
     memory_df_display |-> <<>>,
     total_trays |-> 0, total_appearances |-> 0, formatted_time |-> NoTime,
     selected_time |-> "", form |-> FALSE,
     filtered_df |-> Unbound, total_tray_count |-> 0,
     top_Trays |-> <<>>, tiles |-> <<>>]

Panel(e, p) == [e EXCEPT !.panels = Append(@, p)]

(* An exception raised at step s: nothing after s runs in the try block *)
Raise(e, s) == [e EXCEPT !.raised = TRUE, !.failed_at = s]

(* lines 11-23: the module's top level *)
TopLevel(e) ==
    LET ss1 == IF "manual_refresh" \in e.ss.keys /\ e.ss.manual_refresh
               THEN [e.ss EXCEPT !.manual_refresh = FALSE] ELSE e.ss
        ss2 == IF "manual_refresh" \notin ss1.keys
               THEN [ss1 EXCEPT !.keys = @ \cup {"manual_refresh"}, !.manual_refresh = FALSE]
               ELSE ss1
    IN  [e EXCEPT !.ss = ss2, !.timer = ~ss2.manual_refresh]

(* lines 84-91: the header of main(), outside the try block; st.rerun()     *)
(* ends the run and asks for another one.                                   *)
Header(e) ==
    LET h == Panel(Panel(Panel(e, "info"), "title"), "button")
    IN  IF e.inp.button THEN [h EXCEPT !.rerun = TRUE] ELSE h

(* line 95 *)
Auth(e) ==
    LET a == auth_gspread(e.store)
    IN  [e EXCEPT !.store = a.store, !.writes = a.writes]

(* lines 96-99 *)
Load(e) ==
    [e EXCEPT !.fetched = [t \in SheetNames |-> e.store.records[t]],
              !.plc_df = load_df(e.store.records["plc_data_1"]),
              !.memory_df = load_memory(e.store.records["memory_data_1"]),
              !.daily_df = load_df(e.store.records["daily_data_1"]),
              !.counter_df = load_counter(e.store.records["triggered_daily_count"])]

(* lines 102-104 *)
PctChange(e) ==
    IF e.counter_df.rows # <<>>
    THEN [e EXCEPT !.counter_df.rows = with_pct_change(@)]
    ELSE e

(* lines 111-117, 131-134, and the like: a table or its placeholder *)
TableOrInfo(e, df, table, info) ==
    IF df.rows # <<>> THEN Panel(e, table) ELSE Panel(e, info)

(* lines 121-127 *)
MemoryTable(e) ==
    IF e.memory_df.rows # <<>>
    THEN [Panel(e, "memory_dataframe") EXCEPT !.memory_df_display =
            [i \in 1..Len(e.memory_df.rows) |->
                [TrayID |-> e.memory_df.rows[i].TrayID,
                 Count |-> e.memory_df.rows[i].Count,
                 Timestamp |-> strftime(e.memory_df.rows[i].Timestamp + CorrectionHours)]]]
    ELSE Panel(e, "memory_info")

(* lines 138-139 *)
UniqueTrays(e) ==
    [Panel(e, "Unique Trays Scanned") EXCEPT !.total_trays =
        IF e.memory_df.rows # <<>>
        THEN Cardinality({r.TrayID : r \in Range(e.memory_df.rows)}) ELSE 0]

(* lines 140-141 *)
TotalScans(e) ==
    [Panel(e, "Total Defective Trays Scanned") EXCEPT !.total_appearances =
        IF e.memory_df.rows # <<>>
        THEN SumSeq([i \in 1..Len(e.memory_df.rows) |-> e.memory_df.rows[i].Count]) ELSE 0]

(* lines 79-81 *)
format_custom_datetime(dt) ==
    LET f == strftime(dt + CorrectionHours)
    IN  [na |-> FALSE, day |-> f.day, hour |-> f.hour]

(* lines 142-144 *)
LastScan(e) ==
    [Panel(e, "Last Scanned Tray Time") EXCEPT !.formatted_time =
        IF e.memory_df.rows # <<>>
        THEN format_custom_datetime(SetMax({r.Timestamp : r \in Range(e.memory_df.rows)}))
        ELSE NoTime]

(* lines 185-200: sort by timestamp, add the corrected timestamp, keep Count > 1 *)
Appearances(e) ==
    IF e.memory_df.rows # <<>>
    THEN {[Panel(e, "appearances_chart") EXCEPT !.memory_df.rows =
              SelectSeq([i \in 1..Len(s) |->
                            [s[i] EXCEPT !.Corrected =
                                [present |-> TRUE,
                                 day |-> strftime(s[i].Timestamp + CorrectionHours).day,
                                 hour |-> strftime(s[i].Timestamp + CorrectionHours).hour]]],
                        LAMBDA r : r.Count > 1)]
          : s \in sort_by_timestamp(e.memory_df.rows)}
    ELSE {Panel(e, "appearances_info")}

(* lines 220-225 *)
SessionInit(e) ==
    LET ss1 == IF "filtered_df" \notin e.ss.keys
               THEN [e.ss EXCEPT !.keys = @ \cup {"filtered_df"}, !.filtered_df = e.memory_df]
               ELSE e.ss
        ss2 == IF "selected_time_filter" \notin ss1.keys
               THEN [ss1 EXCEPT !.keys = @ \cup {"selected_time_filter"},
                                !.selected_time_filter = "All Data"]
               ELSE ss1
    IN  [e EXCEPT !.ss = ss2]

(* line 227 *)
Selectbox(e) ==
    [Panel(e, "selectbox") EXCEPT !.selected_time = e.ss.selected_time_filter]

(* the window of a fixed time-range option, in days (lines 230-237) *)
WindowDays(opt) ==
    CASE opt = "Last 1 Day" -> 1
      [] opt = "Last 2 Days" -> 2
      [] opt = "Last 7 Days" -> 7
      [] opt = "Last 1 Month" -> DaysInMonth

(* FilterSince with the boundary instant left out *)
FilterAfter(rows, now, d) ==
    SelectSeq(rows, LAMBDA r : r.Timestamp > now - Timedelta_days(d))

(* memory_df[memory_df["Most Recent Timestamp"] >= now - pd.Timedelta(days=d)] *)
FilterSince(rows, now, d) ==
    SelectSeq(rows, LAMBDA r : r.Timestamp >= now - Timedelta_days(d))

(* lines 247-250: both ends are dates, read as midnight *)
FilterBetween(rows, start_date, end_date) ==
    SelectSeq(rows, LAMBDA r :
        /\ r.Timestamp >= to_datetime([day |-> start_date, hour |-> 0])
        /\ r.Timestamp <= to_datetime([day |-> end_date, hour |-> 0]))

Bound(columns, rows) == [bound |-> TRUE, columns |-> columns, rows |-> rows]

(* line 240 *)
FormHeader(e) ==
    IF e.selected_time = "Custom Range" THEN Panel(e, "form_header") ELSE e

(* lines 241-245: min()/max() of the column, the two date inputs, the       *)
(* submit button.  On a frame without columns the column lookup raises; on  *)
(* a frame with columns and no rows min() is NaT, which st.date_input may   *)
(* or may not accept.                                                      *)
FormInputs(e) ==
    IF e.selected_time # "Custom Range" THEN {e}
    ELSE IF ~e.memory_df.columns THEN {Raise(e, "form_inputs")}
    ELSE IF e.memory_df.rows = <<>>
         THEN {Raise(e, "form_inputs"), [Panel(e, "form_inputs") EXCEPT !.form = TRUE]}
    ELSE {[Panel(e, "form_inputs") EXCEPT !.form = TRUE]}

(* Filter with the "All Data" branch reading the copy kept in session_state *)
FilterFromSession(e) ==
    IF e.selected_time \in {"Last 1 Day", "Last 2 Days", "Last 7 Days", "Last 1 Month"}
    THEN IF ~e.memory_df.columns THEN Raise(e, "filter")
         ELSE [e EXCEPT !.filtered_df =
                  Bound(TRUE, FilterSince(e.memory_df.rows, e.inp.now,
                                          WindowDays(e.selected_time)))]
    ELSE IF e.selected_time = "Custom Range"
    THEN IF e.inp.submitted
         THEN [e EXCEPT !.filtered_df =
                  Bound(TRUE, FilterBetween(e.memory_df.rows,
                                            e.inp.start_date, e.inp.end_date))]
         ELSE e
    ELSE [e EXCEPT !.filtered_df = Bound(e.ss.filtered_df.columns, e.ss.filtered_df.rows)]

(* lines 230-252, the assignment of filtered_df *)
Filter(e) ==
    IF e.selected_time \in {"Last 1 Day", "Last 2 Days", "Last 7 Days", "Last 1 Month"}
    THEN IF ~e.memory_df.columns THEN Raise(e, "filter")
         ELSE [e EXCEPT !.filtered_df =
                  Bound(TRUE, FilterSince(e.memory_df.rows, e.inp.now,
                                          WindowDays(e.selected_time)))]
    ELSE IF e.selected_time = "Custom Range"
    THEN IF e.inp.submitted
         THEN [e EXCEPT !.filtered_df =
                  Bound(TRUE, FilterBetween(e.memory_df.rows,
                                            e.inp.start_date, e.inp.end_date))]
         ELSE e
    ELSE [e EXCEPT !.filtered_df = Bound(e.memory_df.columns, e.memory_df.rows)]

(* line 256 *)
TotalTrayCount(e) ==
    IF ~e.filtered_df.bound \/ ~e.filtered_df.columns THEN Raise(e, "total_tray_count")
    ELSE [Panel(e, "Total Tray Count") EXCEPT !.total_tray_count =
             Cardinality({r.TrayID : r \in Range(e.filtered_df.rows)})]

(* line 258 *)
SortTop(e) ==
    IF ~e.filtered_df.columns THEN {Raise(e, "sort_top")}
    ELSE {[e EXCEPT !.top_Trays = head(s, TopN)] : s \in sort_by_count_desc(e.filtered_df.rows)}

(* lines 259-268: tile i goes to columns[i]; there are NColumns of them *)
Tiles(e) ==
    LET n == Min2(Len(e.top_Trays), NColumns)
        shown == [e EXCEPT
                    !.tiles = [i \in 1..n |-> [column |-> i - 1,
                                               value |-> e.top_Trays[i].TrayID,
                                               scans |-> e.top_Trays[i].Count]],
                    !.panels = @ \o [i \in 1..n |-> "concern"]]
    IN  IF Len(e.top_Trays) > NColumns \/ \E i \in 1..n : ~e.top_Trays[i].Corrected.present
        THEN Raise(shown, "tiles")
        ELSE shown

(* lines 272-273 *)
FilteredTable(e) ==
    IF e.filtered_df.rows # <<>> THEN Panel(e, "filtered_dataframe") ELSE e

(* Handler without the write to the error log *)
HandlerNoLog(e) ==
    IF e.raised
    THEN [Panel(e, "error") EXCEPT !.errors = @ + 1, !.caught = TRUE]
    ELSE e

(* lines 287-289 *)
Handler(e) ==
    IF e.raised
    THEN [Panel(e, "error") EXCEPT !.logged = @ + 1, !.errors = @ + 1, !.caught = TRUE]
    ELSE e

----------------------------------------------------------------------------
(* The try block of main() as a sequence of steps, each a statement or one  *)
(* rendering call; a step maps a run state to the set of its outcomes.      *)

TrySteps ==
    <<"auth", "load", "pct",
      "plc_subheader", "plc_table", "memory_subheader", "memory_table",
      "daily_subheader", "daily_table",
      "insights_subheader", "unique_trays", "total_scans", "last_scan",
      "counter_metric", "counter_chart",
      "appearances_header", "appearances", "daily_header", "daily_chart",
      "session_init", "selectbox", "form_header", "form_inputs", "filter",
      "total_tray_count", "sort_top", "tiles", "filtered_table", "filtered_chart">>

StepBody(s, e) ==
    CASE s = "auth" -> {Auth(e)}
      [] s = "load" -> {Load(e)}
      [] s = "pct" -> {PctChange(e)}
      [] s = "plc_subheader" -> {Panel(e, "plc_subheader")}
      [] s = "plc_table" -> {TableOrInfo(e, e.plc_df, "plc_dataframe", "plc_info")}
      [] s = "memory_subheader" -> {Panel(e, "memory_subheader")}
      [] s = "memory_table" -> {MemoryTable(e)}
      [] s = "daily_subheader" -> {Panel(e, "daily_subheader")}
      [] s = "daily_table" -> {TableOrInfo(e, e.daily_df, "daily_dataframe", "daily_info")}
      [] s = "insights_subheader" -> {Panel(e, "insights_subheader")}
      [] s = "unique_trays" -> {UniqueTrays(e)}
      [] s = "total_scans" -> {TotalScans(e)}
      [] s = "last_scan" -> {LastScan(e)}
      [] s = "counter_metric" ->
            {TableOrInfo(e, e.counter_df, "Latest PLC Counter Change", "counter_info")}
      [] s = "counter_chart" ->
            {TableOrInfo(e, e.counter_df, "counter_chart", "counter_chart_info")}
      [] s = "appearances_header" -> {Panel(e, "appearances_header")}
      [] s = "appearances" -> Appearances(e)
      [] s = "daily_header" -> {Panel(e, "daily_header")}
      [] s = "daily_chart" -> {TableOrInfo(e, e.daily_df, "daily_chart", "daily_chart_info")}
      [] s = "session_init" -> {SessionInit(e)}
      [] s = "selectbox" -> {Selectbox(e)}
      [] s = "form_header" -> {FormHeader(e)}
      [] s = "form_inputs" -> FormInputs(e)
      [] s = "filter" -> {Filter(e)}
      [] s = "total_tray_count" -> {TotalTrayCount(e)}
      [] s = "sort_top" -> SortTop(e)
      [] s = "tiles" -> {Tiles(e)}
      [] s = "filtered_table" -> {FilteredTable(e)}
      [] s = "filtered_chart" ->
            {TableOrInfo(e, e.filtered_df, "filtered_chart", "filtered_info")}

(* Whether step s makes a call at all in state e (the form exists only       *)
(* under "Custom Range")                                                    *)
Executes(s, e) ==
    s \in {"form_header", "form_inputs"} => e.selected_time = "Custom Range"

(* One step of the try block: skipped once an exception is pending *)
Step(s, e) ==
    IF e.raised THEN {e}
    ELSE IF e.inp.fault = s /\ Executes(s, e) THEN {Raise(e, s)}
    ELSE StepBody(s, e)

RECURSIVE RunFrom(_, _)
RunFrom(i, E) ==
    IF i > Len(TrySteps) THEN E
    ELSE RunFrom(i + 1, UNION {Step(TrySteps[i], e) : e \in E})

(* The outcomes of one script run from store st and session state ss *)
Outcomes(st, ss, inp) ==
    LET h == Header(TopLevel(Env0(st, ss, inp)))
    IN  IF h.rerun THEN {h}
        ELSE {Handler(e) : e \in RunFrom(1, {h})}

----------------------------------------------------------------------------
(* The state machine: script runs started by the page load, the auto-refresh *)
(* timer, the manual-refresh button, st.rerun(), the time-range selector and *)
(* the custom-range form; and the upstream writers of the store.             *)

(* What is kept of a run: its inputs, its locals and what it rendered *)
RunRecord(o) ==
    [inp |-> o.inp, timer |-> o.timer, rerun |-> o.rerun,
     panels |-> o.panels, raised |-> o.raised, failed_at |-> o.failed_at,
     logged |-> o.logged, errors |-> o.errors, caught |-> o.caught,
     writes |-> o.writes, fetched |-> o.fetched,
     memory_df |-> o.memory_df, memory_df_display |-> o.memory_df_display,
     counter_df |-> o.counter_df,
     total_trays |-> o.total_trays, total_appearances |-> o.total_appearances,
     formatted_time |-> o.formatted_time,
     selected_time |-> o.selected_time, form |-> o.form,
     filtered_df |-> o.filtered_df, total_tray_count |-> o.total_tray_count,
     top_Trays |-> o.top_Trays, tiles |-> o.tiles]

Input(event, button, submitted, start_date, end_date, now, fault) ==
    [event |-> event, button |-> button, submitted |-> submitted,
     start_date |-> start_date, end_date |-> end_date, now |-> now, fault |-> fault]

NewSession ==
    [keys |-> {}, manual_refresh |-> FALSE, filtered_df |-> EmptyFrame,
     selected_time_filter |-> ""]

EmptyStore ==
    [found |-> TRUE, titles |-> SheetNames, records |-> [t \in SheetNames |-> <<>>]]

NoRun == RunRecord(Env0(EmptyStore, NewSession, Input("none", FALSE, FALSE, 0, 0, 0, "")))

(* One script run, from the store as it is and session state ss *)
ScriptRun(ss, inp) ==
    \E o \in Outcomes(store, ss, inp) :
        /\ store' = o.store
        /\ session_state' = o.ss
        /\ run' = RunRecord(o)

Idle == run.inp.event # "none" /\ ~run.rerun

(* the first run of a session *)
PageLoad(now, fault) ==
    /\ run.inp.event = "none"
    /\ ScriptRun(session_state, Input("run", FALSE, FALSE, 0, 0, now, fault))

(* line 23: the st_autorefresh timer, when the last run registered it *)
AutoRefresh(now, fault) ==
    /\ Idle /\ run.timer
    /\ now >= run.inp.now
    /\ ScriptRun(session_state, Input("run", FALSE, FALSE, 0, 0, now, fault))

(* line 89: a click on "Manual Refresh Now"; the button returns True *)
ClickRefresh(now) ==
    /\ Idle /\ "button" \in Range(run.panels)
    /\ now >= run.inp.now
    /\ ScriptRun(session_state, Input("run", TRUE, FALSE, 0, 0, now, ""))

(* line 90: the run st.rerun() asked for *)
RerunRequested(now, fault) ==
    /\ run.rerun
    /\ now >= run.inp.now
    /\ ScriptRun(session_state, Input("rerun", FALSE, FALSE, 0, 0, now, fault))

(* line 227: the user picks another time range *)
SelectTimeRange(opt, now, fault) ==
    /\ Idle /\ "selectbox" \in Range(run.panels)
    /\ opt # session_state.selected_time_filter
    /\ now >= run.inp.now
    /\ ScriptRun([session_state EXCEPT !.selected_time_filter = opt],
                 Input("run", FALSE, FALSE, 0, 0, now, fault))

(* line 245: the user submits the custom-range form *)
SubmitForm(start_date, end_date, now, fault) ==
    /\ Idle /\ run.form
    /\ now >= run.inp.now
    /\ ScriptRun(session_state, Input("run", FALSE, TRUE, start_date, end_date, now, fault))

(* Upstream: a tray scan is recorded in the memory sheet *)
UpstreamAppendMemory(row, max) ==
    /\ store.found /\ "memory_data_1" \in store.titles
    /\ Len(store.records["memory_data_1"]) < max
    /\ store' = [store EXCEPT !.records["memory_data_1"] = Append(@, row)]
    /\ UNCHANGED <<session_state, run>>

(* Upstream: the PLC logger writes its first row to each of its sheets *)
PlcCell == [day |-> 0, hour |-> 0]

CounterCell == [Date |-> [day |-> 0, hour |-> 0], Counter |-> [numeric |-> TRUE, val |-> 1]]

UpstreamLogPlc ==
    LET mine == {"plc_data_1", "daily_data_1", "triggered_daily_count"} \cap store.titles
    IN  /\ store.found
        /\ \E t \in mine : store.records[t] = <<>>
        /\ store' = [store EXCEPT !.records = [t \in SheetNames |->
                        IF t \in mine /\ @[t] = <<>>
                        THEN IF t = "triggered_daily_count" THEN <<CounterCell>> ELSE <<PlcCell>>
                        ELSE @[t]]]
        /\ UNCHANGED <<session_state, run>>

(* The owner of the store removes a worksheet, or the whole spreadsheet *)
DeleteWorksheet(t) ==
    /\ store.found /\ t \in store.titles
    /\ store' = [store EXCEPT !.titles = @ \ {t}, !.records[t] = <<>>]
    /\ UNCHANGED <<session_state, run>>

DeleteSpreadsheet ==
    /\ store.found
    /\ store' = [found |-> FALSE, titles |-> {}, records |-> [t \in SheetNames |-> <<>>]]
    /\ UNCHANGED <<session_state, run>>

----------------------------------------------------------------------------
(* Spec: the dashboard and its environment, without injected faults.  The  *)
(* upstream scanner appends the rows of a fixed feed to the memory sheet.    *)

FeedRow(i) ==
    [TrayID |-> i,
     Count |-> IF i % 3 = 2 THEN 1 ELSE 2,
     Timestamp |-> [day |-> i \div 2, hour |-> 0]]

Clock == {Timedelta_days(2)}

FormDates == {0, 1}

Init ==
    /\ store = EmptyStore
    /\ session_state = NewSession
    /\ run = NoRun

DoPageLoad == \E now \in Clock : PageLoad(now, "")

DoAutoRefresh == \E now \in Clock : AutoRefresh(now, "")

DoClickRefresh == \E now \in Clock : ClickRefresh(now)

DoRerunRequested == \E now \in Clock : RerunRequested(now, "")

DoSelectTimeRange == \E opt \in TimeOptionSet, now \in Clock : SelectTimeRange(opt, now, "")

DoSubmitForm == \E sd \in FormDates, now \in Clock : SubmitForm(sd, 1, now, "")

DoUpstreamAppendMemory ==
    UpstreamAppendMemory(FeedRow(Len(store.records["memory_data_1"]) + 1), MaxRows)

DoDeleteWorksheet ==
    \E t \in SheetNames : store.titles = SheetNames /\ DeleteWorksheet(t)

Next ==
    \/ DoPageLoad
    \/ DoAutoRefresh
    \/ DoClickRefresh
    \/ DoRerunRequested
    \/ DoSelectTimeRange
    \/ DoSubmitForm
    \/ DoUpstreamAppendMemory
    \/ DoDeleteWorksheet
    \/ DeleteSpreadsheet

Spec == Init /\ [][Next]_vars

----------------------------------------------------------------------------
(* Claims checked under Spec *)

Ran == run.inp.event # "none" /\ ~run.rerun

(* C3: when the fetched memory table has no records, the unique tray count, *)
(* the sum of Count, the latest timestamp and the Total Tray Count show     *)
(* their defaults (0, 0, "N/A", 0) and the run raises nothing, whatever the *)
(* time range.                                                              *)
C3_EmptyMemoryYieldsDefaults ==
    (Ran /\ run.fetched["memory_data_1"] = <<>>) =>
        /\ ~run.raised
        /\ run.total_trays = 0
        /\ run.total_appearances = 0
        /\ run.formatted_time.na
        /\ "Total Tray Count" \in Range(run.panels)
        /\ run.total_tray_count = 0

(* C7: a run issues no write call to the store: it creates no spreadsheet   *)
(* and adds no worksheet, also when one of them is missing.                 *)
C7_RunNeverWrites == run.writes = {}

(* C9: in the run a click on the manual-refresh button starts, and in the   *)
(* run st.rerun() then asks for, the auto-refresh timer is not registered.  *)
C9_NoTimerAfterManualRefresh ==
    (run.inp.button \/ run.inp.event = "rerun") => ~run.timer

(* C10: with rows left in the memory table, filtered_df is bound before the *)
(* Total Tray Count and the tiles, for every time range, so the run reaches *)
(* them and raises nothing.                                                 *)
C10_FilteredDefinedBeforeUse ==
    (Ran /\ run.memory_df.rows # <<>>) =>
        /\ run.filtered_df.bound
        /\ ~run.raised
        /\ "Total Tray Count" \in Range(run.panels)

(* What a run shows *)
View(o) ==
    [panels |-> o.panels, memory_df_display |-> o.memory_df_display,
     total_trays |-> o.total_trays, total_appearances |-> o.total_appearances,
     formatted_time |-> o.formatted_time, chart |-> o.memory_df,
     filtered_df |-> o.filtered_df, total_tray_count |-> o.total_tray_count,
     tiles |-> o.tiles, counter_df |-> o.counter_df]

(* The session with nothing left by earlier runs but the widget's selection *)
SelectionOnly(ss) ==
    [NewSession EXCEPT !.keys = ss.keys \cap {"selected_time_filter"},
                       !.selected_time_filter = ss.selected_time_filter]

(* C8: a run loads every worksheet's records in full, and what it shows is  *)
(* what a run of a session holding only the selection shows on the same     *)
(* fetched records, form input and clock: nothing an earlier run left in    *)
(* session_state changes it.                                                *)
C8_ShowsOnlyWhatItFetched ==
    /\ [][(run' # run /\ ~run'.rerun /\ run'.failed_at \notin {"auth", "load"}) =>
             \A t \in SheetNames : run'.fetched[t] = store'.records[t]]_vars
    /\ [](run.inp.event # "none" => View(run) \in
            {View(o) : o \in Outcomes([EmptyStore EXCEPT !.records = run.fetched],
                                      SelectionOnly(session_state), run.inp)})

C8_Witness ==
    /\ Ran /\ ~run.raised
    /\ "filtered_df" \in session_state.keys
    /\ session_state.filtered_df # run.memory_df
    /\ Len(run.tiles) > 0

----------------------------------------------------------------------------
(* SpecFault: the same machine, where the library call of any one step of   *)
(* the try block may raise (a network error, a missing column, ...).        *)

Faults == Range(TrySteps) \cup {""}

FaultOptions == {"All Data", "Last 7 Days", "Custom Range"}

FaultPageLoad == \E now \in Clock, f \in Faults : PageLoad(now, f)

FaultAutoRefresh == \E now \in Clock, f \in Faults : AutoRefresh(now, f)

FaultRerunRequested == \E now \in Clock, f \in Faults : RerunRequested(now, f)

FaultSelectTimeRange ==
    \E opt \in FaultOptions, now \in Clock, f \in Faults : SelectTimeRange(opt, now, f)

FaultSubmitForm ==
    \E sd \in FormDates, now \in Clock, f \in Faults : SubmitForm(sd, 1, now, f)

FaultUpstreamAppendMemory ==
    UpstreamAppendMemory(FeedRow(Len(store.records["memory_data_1"]) + 1), MaxFaultRows)

NextFault ==
    \/ FaultPageLoad
    \/ FaultAutoRefresh
    \/ DoClickRefresh
    \/ FaultRerunRequested
    \/ FaultSelectTimeRange
    \/ FaultSubmitForm
    \/ FaultUpstreamAppendMemory
    \/ UpstreamLogPlc

SpecFault == Init /\ [][NextFault]_vars

(* The panels a step may render, and whether it always renders one *)
StepPanels(s) ==
    CASE s = "plc_subheader" -> {"plc_subheader"}
      [] s = "plc_table" -> {"plc_dataframe", "plc_info"}
      [] s = "memory_subheader" -> {"memory_subheader"}
      [] s = "memory_table" -> {"memory_dataframe", "memory_info"}
      [] s = "daily_subheader" -> {"daily_subheader"}
      [] s = "daily_table" -> {"daily_dataframe", "daily_info"}
      [] s = "insights_subheader" -> {"insights_subheader"}
      [] s = "unique_trays" -> {"Unique Trays Scanned"}
      [] s = "total_scans" -> {"Total Defective Trays Scanned"}
      [] s = "last_scan" -> {"Last Scanned Tray Time"}
      [] s = "counter_metric" -> {"Latest PLC Counter Change", "counter_info"}
      [] s = "counter_chart" -> {"counter_chart", "counter_chart_info"}
      [] s = "appearances_header" -> {"appearances_header"}
      [] s = "appearances" -> {"appearances_chart", "appearances_info"}
      [] s = "daily_header" -> {"daily_header"}
      [] s = "daily_chart" -> {"daily_chart", "daily_chart_info"}
      [] s = "selectbox" -> {"selectbox"}
      [] s = "form_header" -> {"form_header"}
      [] s = "form_inputs" -> {"form_inputs"}
      [] s = "total_tray_count" -> {"Total Tray Count"}
      [] s = "tiles" -> {"concern"}
      [] s = "filtered_table" -> {"filtered_dataframe"}
      [] s = "filtered_chart" -> {"filtered_chart", "filtered_info"}
      [] OTHER -> {}

AlwaysRenders(s) ==
    StepPanels(s) # {} /\ s \notin {"form_header", "form_inputs", "tiles", "filtered_table"}

StepIndex(s) == CHOOSE i \in 1..Len(TrySteps) : TrySteps[i] = s

Occurrences(seq, x) == Cardinality({i \in 1..Len(seq) : seq[i] = x})

(* C6: an exception raised at a step of the try block is caught by main():  *)
(* one entry goes to the error log, one error message is shown (last), the  *)
(* header and every panel of the steps before the failing one are rendered, *)
(* and no panel of a later step is.                                         *)
C6_FailureCaughtAtTopLevel ==
    run.raised =>
        LET k == StepIndex(run.failed_at)
            shown == Range(run.panels)
        IN  /\ run.caught
            /\ run.logged = 1
            /\ run.errors = 1
            /\ Occurrences(run.panels, "error") = 1
            /\ run.panels[Len(run.panels)] = "error"
            /\ {"info", "title", "button"} \subseteq shown
            /\ \A i \in 1..(k - 1) :
                  AlwaysRenders(TrySteps[i]) => StepPanels(TrySteps[i]) \cap shown # {}
            /\ \A i \in (k + 1)..Len(TrySteps) : StepPanels(TrySteps[i]) \cap shown = {}

(* a fault injected in the middle of the page: some panels before it, none after *)
C6_Witness ==
    /\ run.raised /\ run.inp.fault = "counter_metric" /\ run.failed_at = "counter_metric"
    /\ "Last Scanned Tray Time" \in Range(run.panels)
    /\ run.logged = 1

----------------------------------------------------------------------------
(* SpecTop: runs over memory tables of up to MaxTopRows rows.  Row i was    *)
(* scanned on day i; the counts rise or fall along the table, and one row   *)
(* may repeat the count of the row before it (a tie).                       *)

TopRow(n, tie, rising, i) ==
    LET c(j) == IF rising THEN j ELSE n - j + 2
    IN  [TrayID |-> i,
         Count |-> IF tie # 0 /\ i = tie + 1 THEN c(tie) ELSE c(i),
         Timestamp |-> [day |-> i, hour |-> 0]]

TopTables ==
    {[i \in 1..n |-> TopRow(n, tie, rising, i)] :
        n \in 0..MaxTopRows, tie \in 0..MaxTopRows, rising \in BOOLEAN}

TopClock == {Timedelta_days(MaxTopRows)}

InitTop ==
    /\ store \in {[EmptyStore EXCEPT !.records["memory_data_1"] = tbl] : tbl \in TopTables}
    /\ session_state = NewSession
    /\ run = NoRun

TopPageLoad == \E now \in TopClock : PageLoad(now, "")

TopSelectTimeRange ==
    \E opt \in TimeOptionSet, now \in TopClock : SelectTimeRange(opt, now, "")

NextTop == TopPageLoad \/ TopSelectTimeRange

SpecTop == InitTop /\ [][NextTop]_vars

(* the run got as far as line 258 *)
Sorted ==
    /\ Ran /\ run.filtered_df.bound /\ run.filtered_df.columns
    /\ run.failed_at \in {"", "tiles", "filtered_table", "filtered_chart"}

PositionIn(rows, r) == CHOOSE i \in 1..Len(rows) : rows[i] = r

(* C1: top_Trays is in non-increasing Count order, and two of its rows with *)
(* equal Count keep the order they had in filtered_df.                      *)
C1_TopSortedAndStable ==
    Sorted =>
        \A i, j \in 1..Len(run.top_Trays) :
            i < j =>
                /\ run.top_Trays[i].Count >= run.top_Trays[j].Count
                /\ run.top_Trays[i].Count = run.top_Trays[j].Count =>
                      PositionIn(run.filtered_df.rows, run.top_Trays[i])
                        < PositionIn(run.filtered_df.rows, run.top_Trays[j])

----------------------------------------------------------------------------
(* SpecFilter: runs over memory tables whose timestamps lie on and next to  *)
(* the boundary of each window.                                             *)

FilterStamps == {[day |-> 0, hour |-> 0], [day |-> 0, hour |-> 1]}

FilterTables ==
    UNION {{[i \in 1..n |-> [TrayID |-> i, Count |-> i + 1, Timestamp |-> f[i]]] :
               f \in [1..n -> FilterStamps]} : n \in 0..MaxFilterRows}

FilterClock ==
    {to_datetime([day |-> d, hour |-> h]) : d \in {1, 2, 7, DaysInMonth}, h \in {0, 1}}

InitFilter ==
    /\ store \in {[EmptyStore EXCEPT !.records["memory_data_1"] = tbl] : tbl \in FilterTables}
    /\ session_state = NewSession
    /\ run = NoRun

FilterPageLoad == \E now \in FilterClock : PageLoad(now, "")

FilterSelectTimeRange ==
    \E opt \in TimeOptionSet, now \in FilterClock : SelectTimeRange(opt, now, "")

NextFilter == FilterPageLoad \/ FilterSelectTimeRange

SpecFilter == InitFilter /\ [][NextFilter]_vars

(* the window of a fixed option, in hours *)
WindowHours(opt) ==
    CASE opt = "Last 1 Day" -> 24
      [] opt = "Last 2 Days" -> 48
      [] opt = "Last 7 Days" -> 168
      [] opt = "Last 1 Month" -> 720

Filtered ==
    /\ Ran /\ run.filtered_df.bound
    /\ run.selected_time \in {"Last 1 Day", "Last 2 Days", "Last 7 Days", "Last 1 Month"}

(* C4: under a fixed time range, a row of memory_df is in filtered_df if    *)
(* and only if its timestamp is >= now - window, the boundary included, and *)
(* filtered_df holds nothing else.                                          *)
C4_KeptIffWithinWindow ==
    Filtered =>
        /\ \A r \in Range(run.memory_df.rows) :
              r \in Range(run.filtered_df.rows)
                <=> r.Timestamp >= run.inp.now - WindowHours(run.selected_time)
        /\ Range(run.filtered_df.rows) \subseteq Range(run.memory_df.rows)

C4_Witness ==
    /\ Filtered /\ run.selected_time = "Last 1 Month"
    /\ \E r \in Range(run.filtered_df.rows) : r.Timestamp = run.inp.now - 720
    /\ \E r \in Range(run.memory_df.rows) : r \notin Range(run.filtered_df.rows)

----------------------------------------------------------------------------
(* SpecPct: runs over counter sheets of up to MaxSeries rows whose Counter  *)
(* cells are numbers up to MaxCounter or not numeric.                       *)

CounterCells ==
    {[numeric |-> FALSE, val |-> 0]} \cup {[numeric |-> TRUE, val |-> v] : v \in 0..MaxCounter}

CounterTables ==
    UNION {{[i \in 1..n |-> [Date |-> [day |-> i, hour |-> 0], Counter |-> f[i]]] :
               f \in [1..n -> CounterCells]} : n \in 0..MaxSeries}

InitPct ==
    /\ store \in {[EmptyStore EXCEPT !.records["triggered_daily_count"] = tbl] :
                     tbl \in CounterTables}
    /\ session_state = NewSession
    /\ run = NoRun

NextPct == DoPageLoad \/ DoAutoRefresh

SpecPct == InitPct /\ [][NextPct]_vars

(* the Counter value of a fetched cell, a non-numeric cell counted as 0 *)
CounterValue(cell) == IF cell.numeric THEN cell.val ELSE 0

(* (cur - prev) / prev * 100 in float arithmetic *)
PctFormula(cur, prev) == FMulInt(FDiv(cur - prev, prev), 100)

Computed ==
    /\ Ran /\ run.failed_at \notin {"auth", "load", "pct"}
    /\ run.counter_df.rows # <<>>

(* C5 as stated: the first row's Pct Change is 0 and every later row's is   *)
(* (cur - prev) / prev * 100.                                               *)
C5_PctChangeIsFormula ==
    Computed =>
        LET cells == run.fetched["triggered_daily_count"]
            rows == run.counter_df.rows
        IN  /\ Len(rows) = Len(cells)
            /\ rows[1].PctChange = Zero
            /\ \A i \in 2..Len(rows) :
                  rows[i].PctChange =
                      PctFormula(CounterValue(cells[i].Counter), CounterValue(cells[i - 1].Counter))

(* C5 amended: the first row's Pct Change is 0; a later row's is the exact  *)
(* value of (cur - prev) / prev * 100 when prev # 0, and when prev = 0 it   *)
(* is 0 if cur = 0 and +infinity if cur > 0.                                *)
C5_PctChangeAmended ==
    Computed =>
        LET cells == run.fetched["triggered_daily_count"]
            rows == run.counter_df.rows
        IN  /\ Len(rows) = Len(cells)
            /\ rows[1].PctChange = Zero
            /\ \A i \in 2..Len(rows) :
                  LET cur == CounterValue(cells[i].Counter)
                      prev == CounterValue(cells[i - 1].Counter)
                      pct == rows[i].PctChange
                  IN  /\ prev # 0 => /\ pct.kind = "finite"
                                     /\ pct.num * prev = 100 * (cur - prev) * pct.den
                      /\ (prev = 0 /\ cur = 0) => pct = Zero
                      /\ (prev = 0 /\ cur > 0) => pct = Inf

C5_Witness ==
    /\ Computed /\ Len(run.counter_df.rows) >= 3
    /\ run.counter_df.rows[2].PctChange = Finite(100, 1)
    /\ run.counter_df.rows[3].PctChange = Finite(-50, 1)

====
